---- MODULE Spec2Model ----
(***************************************************************************)
(* Lifecycle of the aws_eks_addon resource (internal/service/eks/addon.go) *)
(* as a state machine: one resource instance, its ResourceData `d`, the    *)
(* handler in progress and its position, the diagnostics it has collected  *)
(* and the remote calls it has issued.  The remote control plane is the    *)
(* environment: each remote call is answered nondeterministically.         *)
(***************************************************************************)
EXTENDS Integers, Sequences, FiniteSets, TLC

VARIABLES
    d,          \* schema.ResourceData: id, IsNewResource, attributes, prior state
    op,         \* handler in progress: "none", "Create", "Read", "Update", "Delete"
    pc,         \* position inside the handler
    input,      \* the request built by the handler (CreateAddonInput, ...)
    diags,      \* diag.Diagnostics of the handler in progress
    calls,      \* remote calls issued by the handler in progress, in order
    attempts,   \* retries of CreateAddon spent inside tfresource.RetryWhen
    polls,      \* polls spent inside the current wait
    waitErr,    \* outcome of the handler's wait: "none", "ok", "failure", "timeout"
    observed,   \* last status the handler's wait has observed, "none" before
    nextToken   \* sdkid.UniqueId() values drawn by the handler in progress

vars == <<d, op, pc, input, diags, calls, attempts, polls, waitErr, observed, nextToken>>

----------------------------------------------------------------------------
(* Bounds of the model *)

\* CreateAddon retries that fit in the propagationTimeout budget
MaxRetries == 2
\* polls that fit in a wait's timeout
MaxPolls == 2

----------------------------------------------------------------------------
(* Values *)

\* Strings whose content matters are sequences of characters or of words.
ClusterNames == { <<"c">> }
AddonNames == { <<"a">>, <<"a", ":", "b">> }
Versions == { "v1", "v2" }
ConfigurationValues == { "", "k" }
RoleArns == { "", "role-x" }
\* types.ResolveConflicts, "" being the zero value of an unset attribute
ResolveConflictsLegacy == { "", "OVERWRITE" }
ResolveConflictsOnCreate == { "", "NONE" }
ResolveConflictsOnUpdate == { "", "NONE" }

\* A *string of a request: <<>> is nil, <<v>> points to v.
Nil == <<>>
Ptr(v) == <<v>>

\* strings.Contains over sequences
Contains(s, sub) ==
    \E i \in 1..(Len(s) - Len(sub) + 1) : SubSeq(s, i, i + Len(sub) - 1) = sub

\* Errors the remote returns to CreateAddon: exception type and message words.
CreateErrors ==
    { [type |-> "InvalidParameterException", msg |-> <<"status", "CREATE_FAILED">>],
      [type |-> "InvalidParameterException", msg |-> <<"cluster", "does", "not", "exist">>],
      [type |-> "InvalidParameterException", msg |-> <<"version", "not", "supported">>],
      [type |-> "ResourceInUseException", msg |-> <<"addon", "does", "exist">>],
      [type |-> "ServerException", msg |-> <<"status", "CREATE_FAILED">>] }

\* err.Error() of a service error: the exception type, then its message.
ErrorString(err) == <<err.type>> \o err.msg

\* errs.IsA[*types.InvalidParameterException](err)
IsInvalidParameter(err) == err.type = "InvalidParameterException"

----------------------------------------------------------------------------
(* Diagnostics *)

Diag(severity, summary, hint) ==
    [severity |-> severity, summary |-> summary, hint |-> hint]

AppendErrorf(ds, summary, hint) == Append(ds, Diag("Error", summary, hint))
AppendWarningf(ds, summary) == Append(ds, Diag("Warning", summary, <<>>))

HasError(ds) == \E i \in 1..Len(ds) : ds[i].severity = "Error"
HasWarning(ds) == \E i \in 1..Len(ds) : ds[i].severity = "Warning"

----------------------------------------------------------------------------
(* Identifier codec *)

addonResourceIDSeparator == ":"

AddonCreateResourceID(clusterName, addonName) ==
    clusterName \o <<addonResourceIDSeparator>> \o addonName

\* positions of the separator in id
SeparatorAt(id) == { i \in 1..Len(id) : id[i] = addonResourceIDSeparator }

\* AddonParseResourceID: the two parts, or <<>> for the malformed-identifier error
AddonParseResourceID(id) ==
    IF Cardinality(SeparatorAt(id)) = 1
    THEN LET i == CHOOSE j \in SeparatorAt(id) : TRUE
             clusterName == SubSeq(id, 1, i - 1)
             addonName == SubSeq(id, i + 1, Len(id))
         IN  IF clusterName # <<>> /\ addonName # <<>>
             THEN <<clusterName, addonName>>
             ELSE <<>>
    ELSE <<>>

----------------------------------------------------------------------------
(* ResourceData *)

\* d.GetOk on a string attribute: set and not the zero value
GetOk(v) == v # ""

\* d.HasChange(key): prior state against the planned value
HasChange(rd, key) == rd.old[key] # rd[key]

\* Variant: every Update is taken to carry a change
HasChangesAlways(rd) == TRUE

\* d.HasChanges("addon_version", "service_account_role_arn", "configuration_values")
HasChanges(rd) ==
    \/ HasChange(rd, "addon_version")
    \/ HasChange(rd, "service_account_role_arn")
    \/ HasChange(rd, "configuration_values")

NoResource ==
    [id |-> <<>>, isNew |-> FALSE,
     addon_name |-> <<>>, cluster_name |-> <<>>,
     addon_version |-> "", configuration_values |-> "",
     service_account_role_arn |-> "", preserve |-> FALSE,
     resolve_conflicts |-> "", resolve_conflicts_on_create |-> "",
     resolve_conflicts_on_update |-> "",
     old |-> [addon_version |-> "", configuration_values |-> "",
              service_account_role_arn |-> ""]]

NoInput == [api |-> "none"]

Init ==
    /\ d = NoResource
    /\ op = "none"
    /\ pc = "idle"
    /\ input = NoInput
    /\ diags = <<>>
    /\ calls = <<>>
    /\ attempts = 0
    /\ polls = 0
    /\ waitErr = "none"
    /\ observed = "none"
    /\ nextToken = 0

\* A handler starts with empty diagnostics and an empty call log.
Enter(name, position) ==
    /\ op' = name
    /\ pc' = position
    /\ diags' = <<>>
    /\ calls' = <<>>
    /\ attempts' = 0
    /\ polls' = 0
    /\ waitErr' = "none"
    /\ observed' = "none"

Call(req, err) == [api |-> req.api, req |-> req, ok |-> err = Nil, err |-> err]

\* A call that succeeded, with the output the handler reads
CallOut(req, out) == [api |-> req.api, req |-> req, ok |-> TRUE, err |-> Nil, out |-> out]

----------------------------------------------------------------------------
(* Create: resourceAddonCreate *)

\* sdkid.UniqueId(): a value never returned before; the values are named by
\* the order in which the handler in progress draws them
UniqueId == nextToken

\* Variant: the split create field is looked at before the legacy field
CreateResolveConflictsSplitFirst(rd) ==
    IF GetOk(rd.resolve_conflicts_on_create) THEN rd.resolve_conflicts_on_create
    ELSE IF GetOk(rd.resolve_conflicts) THEN rd.resolve_conflicts
    ELSE ""

\* input.ResolveConflicts of the create request
CreateResolveConflicts(rd) ==
    IF GetOk(rd.resolve_conflicts) THEN rd.resolve_conflicts
    ELSE IF GetOk(rd.resolve_conflicts_on_create) THEN rd.resolve_conflicts_on_create
    ELSE ""

CreateAddonInput(rd, token) ==
    [api |-> "CreateAddon",
     AddonName |-> rd.addon_name,
     ClientRequestToken |-> token,
     ClusterName |-> rd.cluster_name,
     AddonVersion |->
        IF GetOk(rd.addon_version) THEN Ptr(rd.addon_version) ELSE Nil,
     ConfigurationValues |->
        IF GetOk(rd.configuration_values) THEN Ptr(rd.configuration_values) ELSE Nil,
     ResolveConflicts |-> CreateResolveConflicts(rd),
     ServiceAccountRoleArn |->
        IF GetOk(rd.service_account_role_arn)
        THEN Ptr(rd.service_account_role_arn) ELSE Nil]

\* The configuration a Create is planned with: no prior state, a new resource.
CreatePlans ==
    { [NoResource EXCEPT
          !.isNew = TRUE,
          !.addon_name = an, !.cluster_name = cn,
          !.addon_version = av, !.configuration_values = cv,
          !.service_account_role_arn = ra, !.preserve = pr,
          !.resolve_conflicts = rc, !.resolve_conflicts_on_create = rcc,
          !.resolve_conflicts_on_update = rcu] :
        an \in AddonNames, cn \in ClusterNames,
        av \in {"", "v1"}, cv \in ConfigurationValues, ra \in RoleArns,
        pr \in BOOLEAN, rc \in ResolveConflictsLegacy,
        rcc \in ResolveConflictsOnCreate, rcu \in ResolveConflictsOnUpdate }

\* Entry of resourceAddonCreate: the request is built once, before RetryWhen.
CreateBegin(rd) ==
    /\ pc = "idle"
    /\ d.id = <<>>
    /\ d' = rd
    /\ input' = CreateAddonInput(rd, UniqueId)
    /\ nextToken' = nextToken + 1
    /\ Enter("Create", "CreateAddon")

\* Variant: every invalid-parameter error is retried, whatever its message
CreateRetryableAnyMessage(err) == IsInvalidParameter(err)

\* The retryable predicate handed to tfresource.RetryWhen
CreateRetryable(err) ==
    /\ IsInvalidParameter(err)
    /\ \/ Contains(ErrorString(err), <<"CREATE_FAILED">>)
       \/ Contains(ErrorString(err), <<"does", "not", "exist">>)

\* tfresource.RetryWhen after a failed attempt: another attempt while the error
\* is retryable and the timeout budget is not spent, else the error is returned
RetryWhen(retryable) ==
    IF retryable /\ attempts < MaxRetries THEN "retry" ELSE "return"

\* Variant: the token is drawn inside the retried function, once per attempt
CreateAddonRetryFreshToken(err) ==
    /\ pc = "CreateAddon"
    /\ RetryWhen(CreateRetryable(err)) = "retry"
    /\ calls' = Append(calls, Call(input, Ptr(err)))
    /\ attempts' = attempts + 1
    /\ input' = [input EXCEPT !.ClientRequestToken = UniqueId]
    /\ nextToken' = nextToken + 1
    /\ UNCHANGED <<d, op, pc, diags, polls, waitErr, observed>>

\* tfresource.RetryWhen: CreateAddon failed with a retryable error inside the budget
CreateAddonRetry(err) ==
    /\ pc = "CreateAddon"
    /\ RetryWhen(CreateRetryable(err)) = "retry"
    /\ calls' = Append(calls, Call(input, Ptr(err)))
    /\ attempts' = attempts + 1
    /\ UNCHANGED <<d, op, pc, input, diags, polls, waitErr, observed, nextToken>>

\* Variant: d.SetId(id) placed before the error check
CreateAddonFailedIdSet(err) ==
    /\ pc = "CreateAddon"
    /\ RetryWhen(CreateRetryable(err)) = "return"
    /\ calls' = Append(calls, Call(input, Ptr(err)))
    /\ d' = [d EXCEPT !.id = AddonCreateResourceID(d.cluster_name, d.addon_name)]
    /\ diags' = AppendErrorf(diags, "creating", <<>>)
    /\ pc' = "done"
    /\ UNCHANGED <<op, input, attempts, polls, waitErr, observed, nextToken>>

\* RetryWhen returned an error: a fatal one, or the budget is spent
CreateAddonFailed(err) ==
    /\ pc = "CreateAddon"
    /\ RetryWhen(CreateRetryable(err)) = "return"
    /\ calls' = Append(calls, Call(input, Ptr(err)))
    /\ diags' = AppendErrorf(diags, "creating", <<>>)
    /\ pc' = "done"
    /\ UNCHANGED <<d, op, input, attempts, polls, waitErr, observed, nextToken>>

\* Variant: the identifier is built with the two names in the other order
CreateAddonAcceptedNamesSwapped ==
    /\ pc = "CreateAddon"
    /\ calls' = Append(calls, Call(input, Nil))
    /\ d' = [d EXCEPT !.id = AddonCreateResourceID(d.addon_name, d.cluster_name)]
    /\ pc' = "WaitActive"
    /\ UNCHANGED <<op, input, diags, attempts, polls, waitErr, observed, nextToken>>

\* CreateAddon accepted: d.SetId(id), then the wait for ACTIVE starts
CreateAddonAccepted ==
    /\ pc = "CreateAddon"
    /\ calls' = Append(calls, Call(input, Nil))
    /\ d' = [d EXCEPT !.id = AddonCreateResourceID(d.cluster_name, d.addon_name)]
    /\ pc' = "WaitActive"
    /\ UNCHANGED <<op, input, diags, attempts, polls, waitErr, observed, nextToken>>

\* Statuses DescribeAddon reports while the add-on is being created
CreateStatuses == { "CREATING", "UPDATING", "ACTIVE", "CREATE_FAILED", "DEGRADED" }

\* eks.AddonActiveWaiter: what one poll's status means for the wait
ActiveWaiterState(status) ==
    IF status = "ACTIVE" THEN "success"
    ELSE IF status \in { "CREATE_FAILED", "DEGRADED" } THEN "failure"
    ELSE "retry"

\* Variant: the wait gives up one poll before its deadline
WaitStepEarlyTimeout(state) ==
    IF state = "success" THEN "ok"
    ELSE IF state = "failure" THEN "failure"
    ELSE IF polls + 1 < MaxPolls THEN "retry"
    ELSE "timeout"

\* Outcome of one poll of a wait: "retry" while the timeout leaves room for a poll
WaitStep(state) ==
    IF state = "success" THEN "ok"
    ELSE IF state = "failure" THEN "failure"
    ELSE IF polls < MaxPolls THEN "retry"
    ELSE "timeout"

\* Variant: the error alone, the warning is left out
CreateWaitFailedDiagsNoWarning(ds) == AppendErrorf(ds, "waiting create", <<>>)

\* Diagnostics of a failed wait for ACTIVE: the error, then the warning
CreateWaitFailedDiags(ds) ==
    AppendWarningf(AppendErrorf(ds, "waiting create", <<>>), "apply again purges")

\* Variant: a poll that sees a non-terminal status takes no time off the timeout
WaitActivePollNoDeadline(status) ==
    /\ pc = "WaitActive"
    /\ ActiveWaiterState(status) = "retry"
    /\ observed' = status
    /\ UNCHANGED <<d, op, pc, input, diags, calls, attempts, polls, waitErr, nextToken>>

\* waiter.Wait polls once more
WaitActivePoll(status) ==
    /\ pc = "WaitActive"
    /\ WaitStep(ActiveWaiterState(status)) = "retry"
    /\ polls' = polls + 1
    /\ observed' = status
    /\ UNCHANGED <<d, op, pc, input, diags, calls, attempts, waitErr, nextToken>>

\* waiter.Wait returned an error
CreateWaitFailed(status) ==
    /\ pc = "WaitActive"
    /\ WaitStep(ActiveWaiterState(status)) \in { "failure", "timeout" }
    /\ waitErr' = WaitStep(ActiveWaiterState(status))
    /\ observed' = status
    /\ diags' = CreateWaitFailedDiags(diags)
    /\ pc' = "done"
    /\ UNCHANGED <<d, op, input, calls, attempts, polls, nextToken>>

\* waiter.Wait returned nil: Create goes on to resourceAddonRead
CreateWaitDone(status) ==
    /\ pc = "WaitActive"
    /\ WaitStep(ActiveWaiterState(status)) = "ok"
    /\ waitErr' = "ok"
    /\ observed' = status
    /\ pc' = "Read"
    /\ UNCHANGED <<d, op, input, diags, calls, attempts, polls, nextToken>>

----------------------------------------------------------------------------
(* Read: resourceAddonRead, called by the framework and at the end of       *)
(* Create and Update                                                        *)

\* What FindAddonByClusterNameAndAddonName returns: an add-on or an error
FoundAddons ==
    { [AddonVersion |-> "v1", ConfigurationValues |-> "", ServiceAccountRoleArn |-> ""],
      [AddonVersion |-> "v1", ConfigurationValues |-> "k", ServiceAccountRoleArn |-> "role-x"],
      [AddonVersion |-> "v2", ConfigurationValues |-> "", ServiceAccountRoleArn |-> "role-x"] }
FindErrors == { "ResourceNotFoundException", "ServerException" }

DescribeAddonInput(parts) ==
    [api |-> "DescribeAddon", ClusterName |-> parts[1], AddonName |-> parts[2]]

\* Identifiers handed to the importer
ImportIDs ==
    { <<"c">>, <<":", "a">>, <<"c", ":">>, <<"c", ":", "a", "b">> }

\* schema.ImportStatePassthroughContext: the identifier given on import becomes
\* the identifier of an otherwise empty resource data
Import(id) ==
    /\ pc = "idle"
    /\ d.id = <<>>
    /\ d' = [NoResource EXCEPT !.id = id]
    /\ UNCHANGED <<op, pc, input, diags, calls, attempts, polls, waitErr, observed,
                   nextToken>>

\* Framework refresh of a tracked resource
ReadBegin ==
    /\ pc = "idle"
    /\ d.id # <<>>
    /\ d' = [d EXCEPT !.isNew = FALSE]
    /\ Enter("Read", "Read")
    /\ UNCHANGED <<input, nextToken>>

\* Variant: a malformed identifier is handled like a record that is gone
ReadMalformedIDClearsId ==
    /\ pc = "Read"
    /\ AddonParseResourceID(d.id) = <<>>
    /\ diags' = AppendErrorf(diags, "malformed id", <<>>)
    /\ d' = [d EXCEPT !.id = <<>>]
    /\ pc' = "done"
    /\ UNCHANGED <<op, input, calls, attempts, polls, waitErr, observed, nextToken>>

\* AddonParseResourceID failed: the error is returned before any remote call
ReadMalformedID ==
    /\ pc = "Read"
    /\ AddonParseResourceID(d.id) = <<>>
    /\ diags' = AppendErrorf(diags, "malformed id", <<>>)
    /\ pc' = "done"
    /\ UNCHANGED <<d, op, input, calls, attempts, polls, waitErr, observed, nextToken>>

\* Variant: the not-found branch does not look at IsNewResource
ReadDropsRecordAlways(rd, err) == err = "ResourceNotFoundException"

\* The not-found branch is taken for an established record only
ReadDropsRecord(rd, err) ==
    ~rd.isNew /\ err = "ResourceNotFoundException"

\* The add-on is missing and the record established: d.SetId(""), return nil
ReadNotFound ==
    /\ pc = "Read"
    /\ AddonParseResourceID(d.id) # <<>>
    /\ ReadDropsRecord(d, "ResourceNotFoundException")
    /\ calls' = Append(calls, Call(DescribeAddonInput(AddonParseResourceID(d.id)),
                                   Ptr("ResourceNotFoundException")))
    /\ d' = [d EXCEPT !.id = <<>>]
    /\ pc' = "done"
    /\ UNCHANGED <<op, input, diags, attempts, polls, waitErr, observed, nextToken>>

\* Any other error of the find, not-found for a new resource included
ReadFailed(err) ==
    /\ pc = "Read"
    /\ AddonParseResourceID(d.id) # <<>>
    /\ ~ReadDropsRecord(d, err)
    /\ calls' = Append(calls, Call(DescribeAddonInput(AddonParseResourceID(d.id)),
                                   Ptr(err)))
    /\ diags' = AppendErrorf(diags, "reading", <<>>)
    /\ pc' = "done"
    /\ UNCHANGED <<d, op, input, attempts, polls, waitErr, observed, nextToken>>

\* Variant: the version of the record read is not written to the resource data
ReadFoundKeepsVersion(addon) ==
    /\ pc = "Read"
    /\ AddonParseResourceID(d.id) # <<>>
    /\ calls' = Append(calls, CallOut(DescribeAddonInput(AddonParseResourceID(d.id)),
                                      addon))
    /\ d' = [d EXCEPT
                !.addon_name = AddonParseResourceID(d.id)[2],
                !.cluster_name = AddonParseResourceID(d.id)[1],
                !.configuration_values = addon.ConfigurationValues,
                !.service_account_role_arn = addon.ServiceAccountRoleArn]
    /\ pc' = "done"
    /\ UNCHANGED <<op, input, diags, attempts, polls, waitErr, observed, nextToken>>

\* The add-on was found: its fields are written to the resource data
ReadFound(addon) ==
    /\ pc = "Read"
    /\ AddonParseResourceID(d.id) # <<>>
    /\ calls' = Append(calls, CallOut(DescribeAddonInput(AddonParseResourceID(d.id)),
                                      addon))
    /\ d' = [d EXCEPT
                !.addon_name = AddonParseResourceID(d.id)[2],
                !.cluster_name = AddonParseResourceID(d.id)[1],
                !.addon_version = addon.AddonVersion,
                !.configuration_values = addon.ConfigurationValues,
                !.service_account_role_arn = addon.ServiceAccountRoleArn]
    /\ pc' = "done"
    /\ UNCHANGED <<op, input, diags, attempts, polls, waitErr, observed, nextToken>>

----------------------------------------------------------------------------
(* Update: resourceAddonUpdate *)

\* Variant: the split update field is looked at before the legacy field
UpdateResolveConflictsSplitFirst(rd) ==
    IF GetOk(rd.resolve_conflicts_on_update) THEN rd.resolve_conflicts_on_update
    ELSE IF GetOk(rd.resolve_conflicts) THEN rd.resolve_conflicts
    ELSE ""

\* conflictResolution: the policy put in the update request
UpdateResolveConflicts(rd) ==
    IF GetOk(rd.resolve_conflicts) THEN rd.resolve_conflicts
    ELSE IF GetOk(rd.resolve_conflicts_on_update) THEN rd.resolve_conflicts_on_update
    ELSE ""

\* conflictResolutionAttr: the attribute the policy was read from
UpdateConflictResolutionAttr(rd) ==
    IF GetOk(rd.resolve_conflicts) THEN "resolve_conflicts"
    ELSE IF GetOk(rd.resolve_conflicts_on_update) THEN "resolve_conflicts_on_update"
    ELSE ""

\* Variant: the role is sent only when it changes
UpdateServiceAccountRoleArnOnChange(rd) ==
    IF HasChange(rd, "service_account_role_arn")
    THEN Ptr(rd.service_account_role_arn)
    ELSE Nil

\* input.ServiceAccountRoleArn of the update request
UpdateServiceAccountRoleArn(rd) ==
    IF HasChange(rd, "service_account_role_arn") \/ rd.service_account_role_arn # ""
    THEN Ptr(rd.service_account_role_arn)
    ELSE Nil

\* Variant: the version is sent with every update request
UpdateAddonInputAlwaysVersion(rd, parts, token) ==
    [api |-> "UpdateAddon",
     AddonName |-> parts[2],
     ClientRequestToken |-> token,
     ClusterName |-> parts[1],
     AddonVersion |-> Ptr(rd.addon_version),
     ConfigurationValues |->
        IF HasChange(rd, "configuration_values")
        THEN Ptr(rd.configuration_values) ELSE Nil,
     ResolveConflicts |-> UpdateResolveConflicts(rd),
     ServiceAccountRoleArn |-> UpdateServiceAccountRoleArn(rd)]

\* input of client.UpdateAddon, built when HasChanges holds
UpdateAddonInput(rd, parts, token) ==
    [api |-> "UpdateAddon",
     AddonName |-> parts[2],
     ClientRequestToken |-> token,
     ClusterName |-> parts[1],
     AddonVersion |->
        IF HasChange(rd, "addon_version") THEN Ptr(rd.addon_version) ELSE Nil,
     ConfigurationValues |->
        IF HasChange(rd, "configuration_values")
        THEN Ptr(rd.configuration_values) ELSE Nil,
     ResolveConflicts |-> UpdateResolveConflicts(rd),
     ServiceAccountRoleArn |-> UpdateServiceAccountRoleArn(rd)]

\* The plans an Update is called with: new values of the updatable attributes
\* and of the update policy; the prior state is kept in rd.old.
UpdatePlans(rd) ==
    { [rd EXCEPT
          !.isNew = FALSE,
          !.addon_version = av, !.configuration_values = cv,
          !.service_account_role_arn = ra,
          !.resolve_conflicts = rc, !.resolve_conflicts_on_update = rcu] :
        av \in Versions, cv \in ConfigurationValues, ra \in RoleArns,
        rc \in ResolveConflictsLegacy, rcu \in ResolveConflictsOnUpdate }

\* Entry of resourceAddonUpdate, up to the first remote call
UpdateBegin(rd) ==
    /\ pc = "idle"
    /\ d.id # <<>>
    /\ d' = rd
    /\ LET parts == AddonParseResourceID(rd.id) IN
       IF parts = <<>>
       THEN /\ Enter("Update", "MalformedID")
            /\ UNCHANGED <<input, nextToken>>
       ELSE IF HasChanges(rd)
       THEN /\ Enter("Update", "UpdateAddon")
            /\ input' = UpdateAddonInput(rd, parts, UniqueId)
            /\ nextToken' = nextToken + 1
       ELSE /\ Enter("Update", "Read")
            /\ UNCHANGED <<input, nextToken>>

\* Update and Delete return the parse error of a malformed identifier
MalformedID ==
    /\ pc = "MalformedID"
    /\ diags' = AppendErrorf(diags, "malformed id", <<>>)
    /\ pc' = "done"
    /\ UNCHANGED <<d, op, input, calls, attempts, polls, waitErr, observed, nextToken>>

\* Errors the remote returns to UpdateAddon and DeleteAddon
RequestErrors == { "InvalidParameterException", "ResourceNotFoundException" }

\* client.UpdateAddon failed
UpdateAddonFailed(err) ==
    /\ pc = "UpdateAddon"
    /\ calls' = Append(calls, Call(input, Ptr(err)))
    /\ diags' = AppendErrorf(diags, "updating", <<>>)
    /\ pc' = "done"
    /\ UNCHANGED <<d, op, input, attempts, polls, waitErr, observed, nextToken>>

\* client.UpdateAddon accepted: the update has an id and a status of its own
UpdateAddonAccepted ==
    /\ pc = "UpdateAddon"
    /\ calls' = Append(calls, Call(input, Nil))
    /\ pc' = "WaitUpdate"
    /\ UNCHANGED <<d, op, input, diags, attempts, polls, waitErr, observed, nextToken>>

\* Statuses DescribeUpdate reports for the update
UpdateStatuses == { "InProgress", "Successful", "Failed", "Cancelled" }

\* waitAddonUpdateSuccessful: what one poll's status means for the wait
UpdateWaiterState(status) ==
    IF status = "Successful" THEN "success"
    ELSE IF status = "InProgress" THEN "retry"
    ELSE "failure"

\* Diagnostics of a failed wait for the update
UpdateWaitFailedDiags(ds, rd) ==
    IF UpdateResolveConflicts(rd) # "OVERWRITE"
    THEN AppendErrorf(ds, "waiting update",
                      <<UpdateConflictResolutionAttr(rd), "OVERWRITE">>)
    ELSE AppendErrorf(ds, "waiting update", <<>>)

UpdateWaitPoll(status) ==
    /\ pc = "WaitUpdate"
    /\ WaitStep(UpdateWaiterState(status)) = "retry"
    /\ polls' = polls + 1
    /\ observed' = status
    /\ UNCHANGED <<d, op, pc, input, diags, calls, attempts, waitErr, nextToken>>

UpdateWaitFailed(status) ==
    /\ pc = "WaitUpdate"
    /\ WaitStep(UpdateWaiterState(status)) \in { "failure", "timeout" }
    /\ waitErr' = WaitStep(UpdateWaiterState(status))
    /\ observed' = status
    /\ diags' = UpdateWaitFailedDiags(diags, d)
    /\ pc' = "done"
    /\ UNCHANGED <<d, op, input, calls, attempts, polls, nextToken>>

UpdateWaitDone(status) ==
    /\ pc = "WaitUpdate"
    /\ WaitStep(UpdateWaiterState(status)) = "ok"
    /\ waitErr' = "ok"
    /\ observed' = status
    /\ pc' = "Read"
    /\ UNCHANGED <<d, op, input, diags, calls, attempts, polls, nextToken>>

----------------------------------------------------------------------------
(* Delete: resourceAddonDelete *)

\* Variant: the preserve flag never reaches the request
DeleteAddonInputNoPreserve(rd, parts) ==
    [api |-> "DeleteAddon",
     AddonName |-> parts[2],
     ClusterName |-> parts[1],
     Preserve |-> FALSE]

\* input of client.DeleteAddon; Preserve is set only from a true preserve flag
DeleteAddonInput(rd, parts) ==
    [api |-> "DeleteAddon",
     AddonName |-> parts[2],
     ClusterName |-> parts[1],
     Preserve |-> IF rd.preserve THEN rd.preserve ELSE FALSE]

\* Entry of resourceAddonDelete, up to the remote call
DeleteBegin ==
    /\ pc = "idle"
    /\ d.id # <<>>
    /\ d' = [d EXCEPT !.isNew = FALSE]
    /\ LET parts == AddonParseResourceID(d.id) IN
       IF parts = <<>>
       THEN /\ Enter("Delete", "MalformedID")
            /\ UNCHANGED <<input, nextToken>>
       ELSE /\ Enter("Delete", "DeleteAddon")
            /\ input' = DeleteAddonInput(d, parts)
            /\ UNCHANGED nextToken

\* client.DeleteAddon failed
DeleteAddonFailed(err) ==
    /\ pc = "DeleteAddon"
    /\ calls' = Append(calls, Call(input, Ptr(err)))
    /\ diags' = AppendErrorf(diags, "deleting", <<>>)
    /\ pc' = "done"
    /\ UNCHANGED <<d, op, input, attempts, polls, waitErr, observed, nextToken>>

\* client.DeleteAddon accepted: the wait for the add-on to be gone starts
DeleteAddonAccepted ==
    /\ pc = "DeleteAddon"
    /\ calls' = Append(calls, Call(input, Nil))
    /\ pc' = "WaitDeleted"
    /\ UNCHANGED <<d, op, input, diags, attempts, polls, waitErr, observed, nextToken>>

\* What DescribeAddon answers while the add-on is being deleted
DeleteStatuses == { "DELETING", "DELETE_FAILED", "ResourceNotFoundException" }

\* eks.AddonDeletedWaiter: what one poll's answer means for the wait
DeletedWaiterState(status) ==
    IF status = "ResourceNotFoundException" THEN "success"
    ELSE IF status = "DELETE_FAILED" THEN "failure"
    ELSE "retry"

\* Variant: the error of the failed wait is kept in the handler's diags
DeleteWaitFailedDiagsAppended(ds) == AppendErrorf(ds, "waiting delete", <<>>)

\* Diagnostics of a failed wait for the deletion: the slice AppendErrorf
\* returns is dropped, the handler's diags stay as they were
DeleteWaitFailedDiags(ds) ==
    LET appended == AppendErrorf(ds, "waiting delete", <<>>) IN ds

DeleteWaitPoll(status) ==
    /\ pc = "WaitDeleted"
    /\ WaitStep(DeletedWaiterState(status)) = "retry"
    /\ polls' = polls + 1
    /\ observed' = status
    /\ UNCHANGED <<d, op, pc, input, diags, calls, attempts, waitErr, nextToken>>

DeleteWaitFailed(status) ==
    /\ pc = "WaitDeleted"
    /\ WaitStep(DeletedWaiterState(status)) \in { "failure", "timeout" }
    /\ waitErr' = WaitStep(DeletedWaiterState(status))
    /\ observed' = status
    /\ diags' = DeleteWaitFailedDiags(diags)
    /\ pc' = "done"
    /\ UNCHANGED <<d, op, input, calls, attempts, polls, nextToken>>

DeleteWaitDone(status) ==
    /\ pc = "WaitDeleted"
    /\ WaitStep(DeletedWaiterState(status)) = "ok"
    /\ waitErr' = "ok"
    /\ observed' = status
    /\ pc' = "done"
    /\ UNCHANGED <<d, op, input, diags, calls, attempts, polls, nextToken>>

----------------------------------------------------------------------------
(* Return to the framework *)

\* What the framework keeps of the resource data once the handler has returned:
\* nothing without an identifier or after a Delete that returned no error, else
\* the data as the new prior state.
Persisted(rd) ==
    IF rd.id = <<>> \/ (op = "Delete" /\ ~HasError(diags)) THEN NoResource
    ELSE [rd EXCEPT
             !.isNew = FALSE,
             !.old = [addon_version |-> rd.addon_version,
                      configuration_values |-> rd.configuration_values,
                      service_account_role_arn |-> rd.service_account_role_arn]]

\* The handler returns its diagnostics to the framework.
Return ==
    /\ pc = "done"
    /\ d' = Persisted(d)
    /\ op' = "none"
    /\ pc' = "idle"
    /\ input' = NoInput
    /\ diags' = <<>>
    /\ calls' = <<>>
    /\ attempts' = 0
    /\ polls' = 0
    /\ waitErr' = "none"
    /\ observed' = "none"
    /\ nextToken' = 0

Next ==
    \/ \E rd \in CreatePlans : CreateBegin(rd)
    \/ \E err \in CreateErrors : CreateAddonRetry(err)
    \/ \E err \in CreateErrors : CreateAddonFailed(err)
    \/ CreateAddonAccepted
    \/ \E status \in CreateStatuses : WaitActivePoll(status)
    \/ \E status \in CreateStatuses : CreateWaitFailed(status)
    \/ \E status \in CreateStatuses : CreateWaitDone(status)
    \/ \E id \in ImportIDs : Import(id)
    \/ ReadBegin
    \/ ReadMalformedID
    \/ ReadNotFound
    \/ \E err \in FindErrors : ReadFailed(err)
    \/ \E addon \in FoundAddons : ReadFound(addon)
    \/ \E rd \in UpdatePlans(d) : UpdateBegin(rd)
    \/ MalformedID
    \/ \E err \in RequestErrors : UpdateAddonFailed(err)
    \/ UpdateAddonAccepted
    \/ \E status \in UpdateStatuses : UpdateWaitPoll(status)
    \/ \E status \in UpdateStatuses : UpdateWaitFailed(status)
    \/ \E status \in UpdateStatuses : UpdateWaitDone(status)
    \/ DeleteBegin
    \/ \E err \in RequestErrors : DeleteAddonFailed(err)
    \/ DeleteAddonAccepted
    \/ \E status \in DeleteStatuses : DeleteWaitPoll(status)
    \/ \E status \in DeleteStatuses : DeleteWaitFailed(status)
    \/ \E status \in DeleteStatuses : DeleteWaitDone(status)
    \/ Return

Spec == Init /\ [][Next]_vars

\* A step of a handler that has been entered and has not yet returned
HandlerStep == pc \notin { "idle", "done" } /\ Next

\* A handler that was entered keeps running: the remote answers every call
\* and every poll, and the handler takes its next step
FairSpec == Spec /\ WF_vars(HandlerStep)

----------------------------------------------------------------------------
(* Properties *)

TypeOK ==
    /\ op \in { "none", "Create", "Read", "Update", "Delete" }
    /\ pc \in { "idle", "CreateAddon", "WaitActive", "Read", "MalformedID",
                "UpdateAddon", "WaitUpdate", "DeleteAddon", "WaitDeleted", "done" }
    /\ attempts \in 0..MaxRetries
    /\ polls \in 0..MaxPolls
    /\ waitErr \in { "none", "ok", "failure", "timeout" }
    /\ (pc = "idle") = (op = "none")

\* Positions in the call log of the calls to one API
CallsTo(api) == { i \in 1..Len(calls) : calls[i].api = api }
AcceptedCallsTo(api) == { i \in CallsTo(api) : calls[i].ok }
LastCall == calls[Len(calls)]
LastDiag == diags[Len(diags)]
WaitFailed == waitErr \in { "failure", "timeout" }

\* The identifier a Create derives from the names it sends
CreatedID == AddonCreateResourceID(input.ClusterName, input.AddonName)

\* C1: during and after a Create, the identifier is stored, and equals the
\* encoding of (cluster name, add-on name), exactly when a CreateAddon request
\* was accepted, whatever the wait does afterwards; it is empty otherwise.
C1_IdStoredIffAccepted ==
    op = "Create" =>
        IF AcceptedCallsTo("CreateAddon") # {}
        THEN d.id = CreatedID
        ELSE d.id = <<>>

\* C1 witness: a Create whose request was accepted and whose wait timed out has
\* returned with the identifier stored.
C1_Witness ==
    /\ op = "Create" /\ pc = "done"
    /\ AcceptedCallsTo("CreateAddon") # {}
    /\ waitErr = "timeout"
    /\ d.id = CreatedID

\* C2: a Delete whose request was accepted and whose wait failed returns
\* diagnostics that hold an error.
C2_DeleteWaitFailureReported ==
    (op = "Delete" /\ pc = "done" /\ AcceptedCallsTo("DeleteAddon") # {} /\ WaitFailed)
        => HasError(diags)

\* C3 as stated: no two CreateAddon attempts of one Create carry the same
\* ClientRequestToken.
C3_FreshTokenPerAttempt ==
    op = "Create" =>
        \A i, j \in CallsTo("CreateAddon") :
            i # j => calls[i].req.ClientRequestToken # calls[j].req.ClientRequestToken

\* C3 amended: a Create draws one idempotency token, when it builds the request,
\* and every CreateAddon attempt, the first and each retry, carries that token.
C3_OneTokenPerCreate ==
    op = "Create" =>
        /\ nextToken = 1
        /\ \A i \in CallsTo("CreateAddon") :
              calls[i].req.ClientRequestToken = input.ClientRequestToken

\* C3 witness: a Create has retried, two attempts are in the log.
C3_Witness ==
    /\ op = "Create"
    /\ Cardinality(CallsTo("CreateAddon")) >= 2
    /\ calls[1].req.ClientRequestToken = calls[2].req.ClientRequestToken

\* The class of CreateAddon errors the claim allows a retry for
PriorInstanceError(e) ==
    /\ e.type = "InvalidParameterException"
    /\ \/ \E k \in 1..Len(e.msg) : e.msg[k] = "CREATE_FAILED"
       \/ \E k \in 1..(Len(e.msg) - 2) :
            e.msg[k] = "does" /\ e.msg[k + 1] = "not" /\ e.msg[k + 2] = "exist"

\* C4: a failed CreateAddon call is followed by another call only when its
\* error is an invalid-parameter error about CREATE_FAILED or "does not exist";
\* after any other failure the call is the last one, no wait is started and
\* Create has returned an error.
C4_OnlyPriorInstanceErrorsRetried ==
    op = "Create" =>
        \A i \in CallsTo("CreateAddon") :
            (~calls[i].ok /\ ~PriorInstanceError(calls[i].err[1])) =>
                /\ i = Len(calls)
                /\ pc = "done"
                /\ waitErr = "none" /\ polls = 0
                /\ HasError(diags)

\* C4 witness: after one retry, an invalid-parameter error of another kind has
\* ended the Create.
C4_Witness ==
    /\ op = "Create" /\ pc = "done"
    /\ Len(calls) = 2
    /\ PriorInstanceError(calls[1].err[1])
    /\ calls[2].err[1].type = "InvalidParameterException"
    /\ ~PriorInstanceError(calls[2].err[1])
    /\ HasError(diags)

\* The Read in progress got not-found from the remote
ReadGotNotFound ==
    /\ pc = "done"
    /\ calls # <<>>
    /\ LastCall.api = "DescribeAddon"
    /\ LastCall.err = Ptr("ResourceNotFoundException")

\* C5: when Read gets not-found, an established record (Read called directly
\* or at the end of Update) loses its identifier and no error is returned; a
\* record created in this pass (Read at the end of Create) keeps its identifier
\* and an error is returned.
C5_NotFoundOnRead ==
    ReadGotNotFound =>
        IF op = "Create"
        THEN /\ d.isNew
             /\ d.id = CreatedID
             /\ HasError(diags) /\ LastDiag.summary = "reading"
        ELSE /\ ~d.isNew
             /\ d.id = <<>>
             /\ diags = <<>>

\* C5 witness: the Read that ends an Update found the add-on gone and dropped
\* the record without an error.
C5_Witness ==
    /\ ReadGotNotFound
    /\ op = "Update"
    /\ AcceptedCallsTo("UpdateAddon") # {}
    /\ d.id = <<>>
    /\ diags = <<>>

\* C6: when CreateAddon was accepted and the wait for ACTIVE failed, Create
\* returns an error for the wait and then the warning about re-applying; the
\* accepted call is the last remote call (no retry, no read) and the
\* identifier stays stored.
C6_CreateWaitFailure ==
    (op = "Create" /\ pc = "done" /\ WaitFailed) =>
        /\ diags = << Diag("Error", "waiting create", <<>>),
                      Diag("Warning", "apply again purges", <<>>) >>
        /\ Cardinality(AcceptedCallsTo("CreateAddon")) = 1
        /\ LastCall.api = "CreateAddon" /\ LastCall.ok
        /\ CallsTo("DescribeAddon") = {}
        /\ d.id = CreatedID

\* C6 witness: the add-on reported CREATE_FAILED to the wait of an accepted
\* Create.
C6_Witness ==
    /\ op = "Create" /\ pc = "done"
    /\ waitErr = "failure"
    /\ HasWarning(diags)
    /\ d.id # <<>>

\* C7: when the wait for the update fails, Update returns an error after one
\* UpdateAddon call; unless the policy sent is OVERWRITE the error names the
\* policy attribute to set and the value OVERWRITE, and with OVERWRITE it has
\* no guidance.
C7_UpdateWaitFailureGuidance ==
    (op = "Update" /\ pc = "done" /\ WaitFailed) =>
        /\ HasError(diags)
        /\ Cardinality(CallsTo("UpdateAddon")) = 1
        /\ IF input.ResolveConflicts # "OVERWRITE"
           THEN /\ LastDiag.hint # <<>>
                /\ LastDiag.hint[1] \in { "resolve_conflicts",
                                          "resolve_conflicts_on_update" }
                /\ LastDiag.hint[2] = "OVERWRITE"
           ELSE LastDiag.hint = <<>>

\* The update request is the last remote call: no Read has rewritten d yet
UpdateRequested ==
    /\ op = "Update"
    /\ calls # <<>>
    /\ LastCall.api = "UpdateAddon"

\* C8: an UpdateAddon request carries the service account role exactly when
\* the role is set now or is changing, whatever triggered the update, and then
\* it carries the current value; it leaves the role out only when unset and
\* unchanged.
C8_RoleResentOnUpdate ==
    UpdateRequested =>
        IF d.service_account_role_arn # ""
           \/ d.old.service_account_role_arn # d.service_account_role_arn
        THEN LastCall.req.ServiceAccountRoleArn = Ptr(d.service_account_role_arn)
        ELSE LastCall.req.ServiceAccountRoleArn = Nil

\* C8 witness: an update triggered by the version alone re-sends the role that
\* is set and unchanged.
C8_Witness ==
    /\ UpdateRequested
    /\ d.old.addon_version # d.addon_version
    /\ d.old.configuration_values = d.configuration_values
    /\ d.old.service_account_role_arn = d.service_account_role_arn
    /\ d.service_account_role_arn = "role-x"
    /\ LastCall.req.ServiceAccountRoleArn = Ptr("role-x")

\* C9: the policy of every CreateAddon request is the legacy field when set,
\* else the split create field when set, else none; the split update field has
\* no part in it.
C9_CreatePolicyPrecedence ==
    \A i \in CallsTo("CreateAddon") :
        calls[i].req.ResolveConflicts =
            CASE d.resolve_conflicts # "" -> d.resolve_conflicts
              [] d.resolve_conflicts_on_create # "" -> d.resolve_conflicts_on_create
              [] OTHER -> ""

\* C9 witness: with the legacy and both split fields set, the create request
\* carries the legacy value.
C9_Witness ==
    /\ CallsTo("CreateAddon") # {}
    /\ d.resolve_conflicts = "OVERWRITE"
    /\ d.resolve_conflicts_on_create = "NONE"
    /\ d.resolve_conflicts_on_update = "NONE"
    /\ calls[1].req.ResolveConflicts = "OVERWRITE"

\* C10: the policy of every UpdateAddon request is the legacy field when set,
\* else the split update field when set, else none; the split create field has
\* no part in it.
C10_UpdatePolicyPrecedence ==
    \A i \in CallsTo("UpdateAddon") :
        calls[i].req.ResolveConflicts =
            CASE d.resolve_conflicts # "" -> d.resolve_conflicts
              [] d.resolve_conflicts_on_update # "" -> d.resolve_conflicts_on_update
              [] OTHER -> ""

\* C10 witness: with only the split fields set, the update request carries the
\* update field's value although the create field is set too.
C10_Witness ==
    /\ CallsTo("UpdateAddon") # {}
    /\ d.resolve_conflicts = ""
    /\ d.resolve_conflicts_on_create = "NONE"
    /\ d.resolve_conflicts_on_update = "NONE"
    /\ calls[1].req.ResolveConflicts = "NONE"

\* C11: once DeleteAddon was accepted, Delete ends without an error diagnostic
\* and the framework drops the record from local tracking, whether the wait for
\* the deletion succeeded, failed or timed out.
C11_DeleteDropsRecordWhateverTheWait ==
    (op = "Delete" /\ pc = "done" /\ AcceptedCallsTo("DeleteAddon") # {}) =>
        /\ waitErr \in { "ok", "failure", "timeout" }
        /\ ~HasError(diags)
        /\ Persisted(d) = NoResource

\* C11 witness: the wait for the deletion timed out and the record is dropped.
C11_Witness ==
    /\ op = "Delete"
    /\ pc = "done"
    /\ AcceptedCallsTo("DeleteAddon") # {}
    /\ waitErr = "timeout"
    /\ d.id # <<>>
    /\ Persisted(d) = NoResource

\* C12: the DeleteAddon request of a Delete asks to preserve the managed
\* objects exactly when the record's preserve flag is true, and for the full
\* teardown when the flag is false.
C12_PreserveIffFlag ==
    /\ pc = "DeleteAddon" => input.Preserve = d.preserve
    /\ \A i \in CallsTo("DeleteAddon") : calls[i].req.Preserve = d.preserve

\* C12 witness: a record with the preserve flag set is deleted with a request
\* that asks to preserve.
C12_Witness ==
    /\ op = "Delete"
    /\ d.preserve
    /\ CallsTo("DeleteAddon") # {}
    /\ calls[1].req.Preserve = TRUE

\* None of version, configuration payload and role differs from the prior state
UpdateUnchanged ==
    /\ d.old.addon_version = d.addon_version
    /\ d.old.configuration_values = d.configuration_values
    /\ d.old.service_account_role_arn = d.service_account_role_arn

\* C13: an Update whose version, configuration payload and role all equal the
\* prior state issues no UpdateAddon call and starts no wait; it goes straight
\* to the re-read (or to the identifier error), and an Update without an
\* UpdateAddon call makes no remote call other than the one DescribeAddon of
\* that re-read.
C13_UpdateNoOpWhenUnchanged ==
    op = "Update" =>
        /\ (CallsTo("DescribeAddon") = {} /\ UpdateUnchanged) =>
              /\ calls = <<>>
              /\ pc \in { "Read", "MalformedID", "done" }
        /\ CallsTo("UpdateAddon") = {} =>
              /\ polls = 0
              /\ waitErr = "none"
              /\ Len(calls) <= 1
              /\ \A i \in 1..Len(calls) : calls[i].api = "DescribeAddon"

\* C13 witness: an Update of an unchanged record is at its re-read without
\* any remote call made.
C13_Witness ==
    /\ op = "Update"
    /\ pc = "Read"
    /\ UpdateUnchanged
    /\ d.addon_version = "v1"
    /\ calls = <<>>
    /\ polls = 0

\* C20: an UpdateAddon request carries the version exactly when the version
\* differs from the prior state, and the configuration payload exactly when
\* that payload differs; an unchanged one of the two is left out.
C20_VersionAndConfigOnlyOnChange ==
    UpdateRequested =>
        /\ LastCall.req.AddonVersion =
              IF d.old.addon_version # d.addon_version
              THEN Ptr(d.addon_version) ELSE Nil
        /\ LastCall.req.ConfigurationValues =
              IF d.old.configuration_values # d.configuration_values
              THEN Ptr(d.configuration_values) ELSE Nil

\* C20 witness: an update triggered by the role alone carries neither the
\* version nor the configuration payload.
C20_Witness ==
    /\ UpdateRequested
    /\ d.old.service_account_role_arn # d.service_account_role_arn
    /\ d.old.addon_version = d.addon_version
    /\ d.old.configuration_values = d.configuration_values
    /\ d.configuration_values = "k"
    /\ LastCall.req.AddonVersion = Nil
    /\ LastCall.req.ConfigurationValues = Nil

\* The stored identifier lacks the separator or has an empty half
MalformedStoredID ==
    /\ d.id # <<>>
    /\ \/ \A i \in 1..Len(d.id) : d.id[i] # ":"
       \/ d.id[1] = ":"
       \/ d.id[Len(d.id)] = ":"

\* A Read, Update or Delete is in progress on a malformed stored identifier
MalformedIDHandled ==
    /\ op \in { "Read", "Update", "Delete" }
    /\ MalformedStoredID

\* C18 (states): while Read, Update or Delete handles a stored identifier
\* without separator or with an empty half, no remote call was made, nothing
\* was retried or waited for, and the handler ends with exactly one diagnostic,
\* the malformed-identifier error.
C18_NoCallOnMalformedID ==
    MalformedIDHandled =>
        /\ calls = <<>>
        /\ attempts = 0
        /\ polls = 0
        /\ waitErr = "none"
        /\ pc \in { "Read", "MalformedID", "done" }
        /\ pc = "done" =>
              /\ Len(diags) = 1
              /\ diags[1].severity = "Error"
              /\ diags[1].summary = "malformed id"

\* C18 (steps): entering a handler keeps the malformed identifier, and the
\* one step the handler takes ends it with an error and leaves the identifier
\* and every attribute as they were.
C18_MalformedIDStep ==
    /\ (pc = "idle" /\ MalformedStoredID /\ op' # "none") =>
          /\ d'.id = d.id
          /\ calls' = <<>>
          /\ pc' \in { "Read", "MalformedID" }
    /\ (MalformedIDHandled /\ pc # "done") =>
          /\ d' = d
          /\ calls' = <<>>
          /\ pc' = "done"
          /\ HasError(diags')

\* C18: when the stored identifier lacks the separator or has an empty half,
\* Read, Update and Delete fail with the malformed-identifier error before any
\* remote call, without retrying, and leave the identifier and the attributes
\* unchanged.
C18_MalformedIDFailsLocally ==
    /\ []C18_NoCallOnMalformedID
    /\ [][C18_MalformedIDStep]_vars

\* C18 witness: a Delete of a record whose identifier has no separator ended
\* with the error, without a call, the identifier still stored.
C18_Witness ==
    /\ op = "Delete"
    /\ pc = "done"
    /\ d.id = <<"c">>
    /\ HasError(diags)
    /\ calls = <<>>

\* s holds no separator character
NoSeparator(s) == \A i \in 1..Len(s) : s[i] # ":"

\* Non-empty names of one or two characters, with and without the separator
CodecNames == UNION { [1..n -> { "a", "b", ":" }] : n \in 1..2 }

\* C17 (codec): decoding the encoding of a pair of non-empty names without the
\* separator gives the pair back.
C17_CodecRoundTrip ==
    \A p \in CodecNames, n \in CodecNames :
        (NoSeparator(p) /\ NoSeparator(n)) =>
            AddonParseResourceID(AddonCreateResourceID(p, n)) = <<p, n>>

\* C17: for every pair of cluster name and add-on name without the separator,
\* the identifier Create stores decodes to that pair, in Create's own re-read
\* and in every later Read, Update and Delete, whose remote calls all name
\* that cluster and that add-on.
C17_IdentifierRoundTrip ==
    /\ C17_CodecRoundTrip
    /\ (/\ d.id # <<>>
        /\ d.cluster_name # <<>> /\ d.addon_name # <<>>
        /\ NoSeparator(d.cluster_name) /\ NoSeparator(d.addon_name)) =>
          /\ AddonParseResourceID(d.id) = <<d.cluster_name, d.addon_name>>
          /\ \A i \in 1..Len(calls) :
                /\ calls[i].req.ClusterName = d.cluster_name
                /\ calls[i].req.AddonName = d.addon_name

\* C17 witness: a Delete of a record that Create stored for the pair (c, a)
\* has sent its request for cluster c and add-on a.
C17_Witness ==
    /\ op = "Delete"
    /\ d.id = <<"c", ":", "a">>
    /\ d.cluster_name = <<"c">>
    /\ d.addon_name = <<"a">>
    /\ CallsTo("DeleteAddon") # {}
    /\ calls[1].req.ClusterName = <<"c">>
    /\ calls[1].req.AddonName = <<"a">>

\* A Create has returned after CreateAddon was accepted and the wait saw ACTIVE
CreateWaitedActive ==
    /\ op = "Create"
    /\ pc = "done"
    /\ waitErr = "ok"

\* The record the last call returned is what the resource data now holds
RecordedFromLastCall ==
    /\ d.addon_version = LastCall.out.AddonVersion
    /\ d.configuration_values = LastCall.out.ConfigurationValues
    /\ d.service_account_role_arn = LastCall.out.ServiceAccountRoleArn
    /\ d.cluster_name = input.ClusterName
    /\ d.addon_name = input.AddonName

\* C19 as stated: whenever CreateAddon is accepted and the wait sees the
\* active status, Create ends without error, with the encoded identifier and
\* the fields of the remote record it re-read.
C19_CreateSucceedsOnceActive ==
    CreateWaitedActive =>
        /\ ~HasError(diags)
        /\ d.id = CreatedID
        /\ LastCall.api = "DescribeAddon"
        /\ LastCall.ok
        /\ RecordedFromLastCall

\* C19 amended: when CreateAddon is accepted and the wait sees the active
\* status, Create re-reads after the wait (CreateAddon attempts of which only
\* the last is accepted, then the wait, then the read) and keeps the encoded
\* identifier; when the read returns the add-on, Create ends without any
\* diagnostic and the resource data holds the fields of that record; when the
\* read fails, Create ends with the read's error.
C19_CreateRereadsOnceActive ==
    /\ (op = "Create" /\ pc \in { "CreateAddon", "WaitActive" }) =>
          CallsTo("DescribeAddon") = {}
    /\ (op = "Create" /\ pc = "Read") =>
          /\ waitErr = "ok"
          /\ observed = "ACTIVE"
          /\ CallsTo("DescribeAddon") = {}
          /\ AcceptedCallsTo("CreateAddon") = { Len(calls) }
    /\ CreateWaitedActive =>
          /\ observed = "ACTIVE"
          /\ d.id = CreatedID
          /\ Cardinality(AcceptedCallsTo("CreateAddon")) = 1
          /\ \A i \in CallsTo("CreateAddon"), j \in CallsTo("DescribeAddon") : i < j
          /\ Cardinality(CallsTo("DescribeAddon")) <= 1
          /\ IF LastCall.api = "DescribeAddon" /\ LastCall.ok
             THEN /\ diags = <<>>
                  /\ RecordedFromLastCall
             ELSE HasError(diags)

\* C19 witness: Create asked for version v1, the wait saw ACTIVE, the re-read
\* returned a record at v2, and Create ended without error holding v2.
C19_Witness ==
    /\ CreateWaitedActive
    /\ diags = <<>>
    /\ input.AddonVersion = Ptr("v1")
    /\ LastCall.api = "DescribeAddon"
    /\ LastCall.ok
    /\ LastCall.out.AddonVersion = "v2"
    /\ d.addon_version = "v2"
    /\ d.id = <<"c", ":", "a">>

\* C14 (states): a Create that ends without an accepted CreateAddon ends with
\* an error after at most MaxRetries retries, and a wait that times out ends
\* the Create with an error once the timeout is spent.
C14_CreateEndsWithError ==
    op = "Create" =>
        /\ Cardinality(CallsTo("CreateAddon")) <= MaxRetries + 1
        /\ (pc = "done" /\ AcceptedCallsTo("CreateAddon") = {}) => HasError(diags)
        /\ waitErr = "timeout" =>
              /\ pc = "done"
              /\ polls = MaxPolls
              /\ HasError(diags)

\* C14: every Create returns: the retries of CreateAddon stop when the
\* propagation budget is spent and the wait stops when the create timeout has
\* elapsed, each time with an error.
C14_CreateTerminates ==
    /\ []C14_CreateEndsWithError
    /\ (op = "Create") ~> (op = "Create" /\ pc = "done")

\* C14 witness: a Create whose CreateAddon was answered with the retryable
\* error until the budget was spent has returned an error.
C14_Witness ==
    /\ op = "Create"
    /\ pc = "done"
    /\ attempts = MaxRetries
    /\ Len(calls) = MaxRetries + 1
    /\ AcceptedCallsTo("CreateAddon") = {}
    /\ HasError(diags)

\* The status that ends the wait of the handler in progress with success
SuccessTerminal ==
    CASE op = "Create" -> "ACTIVE"
      [] op = "Update" -> "Successful"
      [] op = "Delete" -> "ResourceNotFoundException"
      [] OTHER -> "none"

\* The statuses that leave the wait of the handler in progress waiting
NonTerminal ==
    CASE op = "Create" -> { "CREATING", "UPDATING" }
      [] op = "Update" -> { "InProgress" }
      [] op = "Delete" -> { "DELETING" }
      [] OTHER -> {}

Waiting == pc \in { "WaitActive", "WaitUpdate", "WaitDeleted" }

\* C15 (states): a wait that returned success saw the success-terminal status
\* within its timeout; a wait that returned a timeout saw non-terminal statuses
\* only and returned when the whole timeout was spent, not before.
C15_WaitOutcome ==
    /\ waitErr = "ok" => (observed = SuccessTerminal /\ polls <= MaxPolls)
    /\ waitErr = "timeout" => (observed \in NonTerminal /\ polls = MaxPolls)
    /\ (Waiting /\ polls > 0) => observed \in NonTerminal

\* C15 (steps): a poll that sees the success-terminal status ends the wait
\* with success; a poll that sees a non-terminal status keeps the wait going
\* while the timeout has room and ends it with a timeout when it has none.
C15_WaitStep ==
    Waiting =>
        /\ observed' = SuccessTerminal => (waitErr' = "ok" /\ ~Waiting')
        /\ observed' \in NonTerminal =>
              IF polls < MaxPolls
              THEN /\ Waiting'
                   /\ polls' = polls + 1
                   /\ waitErr' = "none"
              ELSE /\ waitErr' = "timeout"
                   /\ ~Waiting'

\* C15: in the waits of Create, Update and Delete, a status sequence that
\* reaches the success-terminal status within the timeout makes the wait
\* return success, and a sequence that never reaches a terminal status makes
\* it return a timeout at the deadline, never earlier.
C15_WaitTermination ==
    /\ []C15_WaitOutcome
    /\ [][C15_WaitStep]_vars

\* C15 witness: the wait of an Update saw InProgress at every poll and
\* returned a timeout after the last poll the timeout had room for.
C15_Witness ==
    /\ op = "Update"
    /\ waitErr = "timeout"
    /\ polls = MaxPolls
    /\ observed = "InProgress"

====
